---- MODULE Spec2Model ----
(***************************************************************************)
(* A model of the Document Q&A agent: the CLI driver (app.py main), the    *)
(* document loader (src/loaders.py), the indexer (src/indexing.py), the    *)
(* retriever (src/retrieval.py) and the environment loader (src/utils.py). *)
(*                                                                         *)
(* Text is modelled as a sequence of one-character strings, so that strip, *)
(* lower, split, slicing and concatenation are computed as Python computes *)
(* them.                                                                   *)
(***************************************************************************)
EXTENDS Integers, Sequences, FiniteSets, Bags, TLC

VARIABLES
    \* ---- the process and its surroundings (app.py main) ----
    pc,            \* position of main
    environ,       \* os.environ restricted to the keys of interest
    envFile,       \* the .env file: whether it exists, and its lines
    docsPath,      \* what args.docs names: "missing", "file" or "dir"
    reindexFlag,   \* args.reindex
    dirExists,     \* whether ./chroma_db exists
    coll,          \* the persisted collection `documents`: a bag of chunks
    documents,     \* main's local `documents`
    indexer,       \* main's DocumentIndexer: whether built, and its vector_store
    vector_store,  \* main's local `vector_store`: a handle, 0 when unbound
    qa_retriever,  \* main's local `qa_retriever`: whether built, its fields
    nextHandle,    \* identity of the next Chroma object constructed
    out,           \* last line of the latest message printed (banners aside)
    exitCode,      \* the process's exit status, -1 while running
    uncaught,      \* TRUE when an exception left main unhandled
    steps,         \* the setup steps main has executed, in order
    effects,       \* external calls made so far (embedding, chat, index open...)
    branch,        \* which side of the startup index conditional ran
    lastInput,     \* what the last input() call produced
    nReindex,      \* number of runtime reindex commands issued
    \* ---- DocumentLoader (src/loaders.py) ----
    ld_pc, ld_listing, ld_exists, ld_i, all_documents, ld_parsed, ld_raised,
    ld_path, ld_result,
    \* ---- QARetriever (src/retrieval.py) ----
    qa_pc, qa_chain_result, qa_result, fr_show, fr_lines, fr_output

mainVars == <<pc, environ, envFile, docsPath, reindexFlag, dirExists,
              coll, documents, indexer, vector_store, qa_retriever, nextHandle,
              out, exitCode, uncaught, steps, effects, branch, lastInput, nReindex>>

loaderVars == <<ld_pc, ld_listing, ld_exists, ld_i, all_documents, ld_parsed,
                ld_raised, ld_path, ld_result>>

qaVars == <<qa_pc, qa_chain_result, qa_result, fr_show, fr_lines, fr_output>>

vars == <<mainVars, loaderVars, qaVars>>

-----------------------------------------------------------------------------
(* Bounds of the model *)

MaxDocs == 2        \* documents a folder may hold
MaxReindex == 1     \* runtime `reindex` commands per run
MaxFiles == 3       \* entries in a folder traversal
MaxParsed == 2      \* documents one parser call returns
MaxK == 4           \* chunks a retrieval returns
MaxEnvLines == 2    \* lines of a .env file

-----------------------------------------------------------------------------
(* Text helpers: Python str operations on sequences of characters *)

Upper == <<"A","B","C","D","E","F","G","H","I","J","K","L","M",
           "N","O","P","Q","R","S","T","U","V","W","X","Y","Z">>
LowerLetters == <<"a","b","c","d","e","f","g","h","i","j","k","l","m",
                  "n","o","p","q","r","s","t","u","v","w","x","y","z">>

LowerChar(c) ==
    IF \E i \in 1..26 : Upper[i] = c
        THEN LowerLetters[CHOOSE i \in 1..26 : Upper[i] = c]
        ELSE c

\* str.lower()
Lower(s) == [i \in 1..Len(s) |-> LowerChar(s[i])]

Whitespace == {" ", "\t", "\n", "\r"}

RECURSIVE LStrip(_)
LStrip(s) ==
    IF s # <<>> /\ Head(s) \in Whitespace THEN LStrip(Tail(s)) ELSE s

RECURSIVE RStrip(_)
RStrip(s) ==
    IF s # <<>> /\ s[Len(s)] \in Whitespace
        THEN RStrip(SubSeq(s, 1, Len(s) - 1))
        ELSE s

\* str.strip()
Strip(s) == RStrip(LStrip(s))

\* str.startswith(p)
StartsWith(s, p) == Len(s) >= Len(p) /\ SubSeq(s, 1, Len(p)) = p

\* `c in s`
Contains(s, c) == \E i \in 1..Len(s) : s[i] = c

\* index of the first occurrence of c in s (0 when absent)
FirstIndex(s, c) ==
    IF Contains(s, c)
        THEN CHOOSE i \in 1..Len(s) : s[i] = c /\ \A j \in 1..(i - 1) : s[j] # c
        ELSE 0

\* index of the last occurrence of c in s (0 when absent): str.rfind + 1
LastIndex(s, c) ==
    IF Contains(s, c)
        THEN CHOOSE i \in 1..Len(s) :
                 s[i] = c /\ \A j \in (i + 1)..Len(s) : s[j] # c
        ELSE 0

\* s[n:]
DropFirst(s, n) == IF n >= Len(s) THEN <<>> ELSE SubSeq(s, n + 1, Len(s))

\* s[:n]
TakeFirst(s, n) == IF n >= Len(s) THEN s ELSE SubSeq(s, 1, n)

\* c * n
Rep(c, n) == [i \in 1..n |-> c]

RECURSIVE Digits(_)
Digits(n) ==
    LET d == <<"0","1","2","3","4","5","6","7","8","9">>[(n % 10) + 1]
    IN IF n < 10 THEN <<d>> ELSE Digits(n \div 10) \o <<d>>

\* str(n) for n >= 0, as an f-string formats it
Str(n) == Digits(n)

RECURSIVE JoinLines(_)
\* "\n".join(lines)
JoinLines(lines) ==
    IF lines = <<>> THEN <<>>
    ELSE IF Len(lines) = 1 THEN lines[1]
    ELSE lines[1] \o <<"\n">> \o JoinLines(Tail(lines))

RECURSIVE Concat(_)
\* the concatenation of a sequence of sequences
Concat(ss) == IF ss = <<>> THEN <<>> ELSE Head(ss) \o Concat(Tail(ss))

RECURSIVE SeqsUpTo(_, _)
\* all sequences over S of length at most n
SeqsUpTo(S, n) ==
    IF n = 0 THEN {<<>>}
    ELSE LET shorter == SeqsUpTo(S, n - 1)
         IN shorter \cup {Append(s, x) : s \in shorter, x \in S}

Range(s) == {s[i] : i \in 1..Len(s)}

-----------------------------------------------------------------------------
(* src/utils.py *)

OPENAI_API_KEY == <<"O","P","E","N","A","I","_","A","P","I","_","K","E","Y">>

\* `not os.getenv(key)`: the key is unset or set to the empty string
NotSet(env, key) == key \notin DOMAIN env \/ env[key] = <<>>

\* the character U+0000
NUL == "NUL"

\* os.environ[key] = value raises (OSError or ValueError, by interpreter
\* version) on an empty name and on a NUL in the name or the value
IllegalEnv(key, value) ==
    key = <<>> \/ Contains(key, NUL) \/ Contains(value, NUL)

\* os.environ[key] = value, for a name and value os.environ accepts
EnvSet(env, key, value) ==
    [x \in (DOMAIN env) \cup {key} |-> IF x = key THEN value ELSE env[x]]

\* one iteration of the loop over the file's lines
LoadEnvLine(env, raw) ==
    LET line == Strip(raw)
        eq == FirstIndex(line, "=")
    IN IF line # <<>> /\ ~StartsWith(line, <<"#">>) /\ Contains(line, "=")
           THEN EnvSet(env, Strip(TakeFirst(line, eq - 1)), Strip(DropFirst(line, eq)))
           ELSE env

\* whether the assignment of that iteration raises
LoadEnvLineRaises(raw) ==
    LET line == Strip(raw)
        eq == FirstIndex(line, "=")
    IN /\ line # <<>> /\ ~StartsWith(line, <<"#">>) /\ Contains(line, "=")
       /\ IllegalEnv(Strip(TakeFirst(line, eq - 1)), Strip(DropFirst(line, eq)))

RECURSIVE LoadEnvLines(_, _)
\* the loop of utils.py:19-23: the environment it leaves, and whether it was
\* left by an exception
LoadEnvLines(env, lines) ==
    IF lines = <<>> THEN [raised |-> FALSE, env |-> env]
    ELSE IF LoadEnvLineRaises(Head(lines)) THEN [raised |-> TRUE, env |-> env]
    ELSE LoadEnvLines(LoadEnvLine(env, Head(lines)), Tail(lines))

\* load_env_file(): the process environment after the call, and whether the
\* call raised
load_env_file(env, file) ==
    IF ~file.exists THEN [raised |-> FALSE, env |-> env]
                    ELSE LoadEnvLines(env, file.lines)

\* validate_folder(args.docs)
validate_folder(path) == path # "missing" /\ path = "dir"

-----------------------------------------------------------------------------
(* Inputs of a run of main *)

\* the .env file of a run: absent, or holding one line
EnvFiles == {
    [exists |-> FALSE, lines |-> <<>>],
    [exists |-> TRUE, lines |-> <<<<"O","P","E","N","A","I","_","A","P","I","_","K","E","Y"," ","="," ","s","k">>>>],
    [exists |-> TRUE, lines |-> <<<<"O","P","E","N","A","I","_","A","P","I","_","K","E","Y","=">>>>] }

\* the environment the process starts with
StartEnvs == {<<>>, [k \in {OPENAI_API_KEY} |-> <<"k","0">>]}

\* lines a .env file may hold
EnvLines == {
    <<"O","P","E","N","A","I","_","A","P","I","_","K","E","Y","=","s","k">>,
    <<" ","O","P","E","N","A","I","_","A","P","I","_","K","E","Y"," ","="," ">>,
    <<" ","#"," ","O","P","E","N","A","I","_","A","P","I","_","K","E","Y","=","c">>,
    <<"A","=","b","=","c">>,
    <<"=","v">>,
    <<"n","o","e","q">>,
    <<"B", "=", NUL>>,
    <<>> }

\* .env files of up to MaxEnvLines lines, and no file
EnvFilesUpTo ==
    {[exists |-> FALSE, lines |-> <<>>]}
    \cup {[exists |-> TRUE, lines |-> ls] : ls \in SeqsUpTo(EnvLines, MaxEnvLines)}

\* process environments load_env_file may be called in
EnvStartEnvs ==
    {<<>>,
     [k \in {OPENAI_API_KEY} |-> <<"k","0">>],
     [k \in {OPENAI_API_KEY, <<"A">>} |-> IF k = <<"A">> THEN <<"o">> ELSE <<"k","0">>]}

Docs == 1..MaxDocs

\* lines the user may type at the prompt
InputLines == {
    <<" ">>,
    <<" ","Q","u","i","t">>,
    <<"R","E","I","N","D","E","X"," ">>,
    <<"r","e","i","n","d","e","x">>,
    <<"q","u","i","t","?">> }

quit == <<"q","u","i","t">>
reindex == <<"r","e","i","n","d","e","x">>

-----------------------------------------------------------------------------
(* src/indexing.py *)

\* number of chunks the text splitter cuts document d into
NumChunks(d) == d

RECURSIVE chunk_documents(_)
\* DocumentIndexer.chunk_documents: the chunks of each document, in order
chunk_documents(docs) ==
    IF docs = <<>> THEN <<>>
    ELSE [i \in 1..NumChunks(Head(docs)) |-> <<Head(docs), i>>]
         \o chunk_documents(Tail(docs))

RECURSIVE SeqToBag(_)
SeqToBag(s) ==
    IF s = <<>> THEN EmptyBag ELSE SetToBag({Head(s)}) (+) SeqToBag(Tail(s))

\* Chroma.from_documents(chunks, persist_directory, collection_name): opens (or
\* creates) the named collection in the directory and adds every chunk under a
\* fresh id; what the collection held before stays.
FromDocuments(c, chunks) == c (+) SeqToBag(chunks)

\* the collection after a successful index_documents(docs)
IndexedCollection(c, docs) == FromDocuments(c, chunk_documents(docs))

\* the conditional without its `not args.reindex` half
UseExistingIndex_IgnoresFlag(flag, exists) == exists

\* the startup conditional: reopen the persisted index instead of indexing
UseExistingIndex(flag, exists) == ~flag /\ exists

RECURSIVE SortedSeq(_)
\* a set of documents in traversal order
SortedSeq(S) ==
    IF S = {} THEN <<>>
    ELSE LET m == CHOOSE x \in S : \A y \in S : x <= y
         IN <<m>> \o SortedSeq(S \ {m})

\* what load_folder may return: the documents of the folder, in traversal order
FolderLoads == {SortedSeq(S) : S \in SUBSET Docs}

\* collections an earlier run may have left in ./chroma_db
EarlierCollections == {EmptyBag, IndexedCollection(EmptyBag, <<1>>)}

-----------------------------------------------------------------------------
(* app.py main: setup *)

K_DEFAULT == 4

MsgNoKey == "Get your API key from: https://platform.openai.com/api-keys"
MsgNoFolder == "Error: Folder not found"
MsgNoDocs == "Error: No documents found in the specified folder."
MsgLoadError == "Error loading documents"
MsgIndexError == "Error indexing documents"
MsgQAError == "Error initializing QA system"
MsgTraceback == "Traceback (most recent call last):"
MsgGoodbye == "Goodbye!"
MsgReindexWarn == "Warning: No documents found in the folder."
MsgReindexError == "The previous index is still available."
MsgReindexDone == "Reindexing complete! The database has been updated."
MsgAnswer == "ANSWER:"
MsgError == "Please try again or type 'quit' to exit."

\* sys.exit(code) after printing msg
Exit(code, msg) ==
    /\ pc' = "exited"
    /\ exitCode' = code
    /\ out' = msg

MainInit ==
    /\ pc = "start"
    /\ environ \in StartEnvs
    /\ envFile \in EnvFiles
    /\ docsPath \in {"missing", "file", "dir"}
    /\ reindexFlag \in BOOLEAN
    /\ dirExists \in BOOLEAN
    /\ coll \in IF dirExists THEN EarlierCollections ELSE {EmptyBag}
    /\ documents = <<>>
    /\ indexer = [made |-> FALSE, vector_store |-> 0]
    /\ vector_store = 0
    /\ qa_retriever = [made |-> FALSE, vector_store |-> 0, k |-> 0]
    /\ nextHandle = 1
    /\ out = ""
    /\ exitCode = -1
    /\ uncaught = FALSE
    /\ steps = <<>>
    /\ effects = {}
    /\ branch = "none"
    /\ lastInput = [kind |-> "none", text |-> <<>>]
    /\ nReindex = 0

\* app.py:56: the call stands outside any try, so what it raises leaves main
LoadEnv ==
    /\ pc = "start"
    /\ LET r == load_env_file(environ, envFile)
       IN /\ environ' = r.env
          /\ IF r.raised
                 THEN Exit(1, MsgTraceback) /\ uncaught' = TRUE
                 ELSE pc' = "key_check" /\ UNCHANGED <<exitCode, out, uncaught>>
    /\ steps' = Append(steps, "env_load")
    /\ UNCHANGED <<envFile, docsPath, reindexFlag, dirExists, coll,
                   documents, indexer, vector_store, qa_retriever, nextHandle,
                   effects, branch, lastInput, nReindex>>

\* the key check never reporting a missing key
KeyMissing_Never(env) == FALSE

\* app.py:59
KeyMissing(env) == NotSet(env, OPENAI_API_KEY)

\* app.py:58-63
CheckKey ==
    /\ pc = "key_check"
    /\ steps' = Append(steps, "key_check")
    /\ IF KeyMissing(environ)
           THEN Exit(1, MsgNoKey)
           ELSE pc' = "folder_check" /\ UNCHANGED <<exitCode, out>>
    /\ UNCHANGED <<environ, envFile, docsPath, reindexFlag, dirExists,
                   coll, documents, indexer, vector_store, qa_retriever, nextHandle,
                   uncaught, effects, branch, lastInput, nReindex>>

\* app.py:65-68
CheckFolder ==
    /\ pc = "folder_check"
    /\ steps' = Append(steps, "folder_check")
    /\ IF ~validate_folder(docsPath)
           THEN Exit(1, MsgNoFolder)
           ELSE pc' = "load" /\ UNCHANGED <<exitCode, out>>
    /\ UNCHANGED <<environ, envFile, docsPath, reindexFlag, dirExists,
                   coll, documents, indexer, vector_store, qa_retriever, nextHandle,
                   uncaught, effects, branch, lastInput, nReindex>>

\* app.py:75-84; load_folder either raises or returns the folder's documents
LoadDocs ==
    /\ pc = "load"
    /\ steps' = Append(steps, "load_folder")
    /\ \E raises \in BOOLEAN, found \in FolderLoads :
          IF raises
              THEN Exit(1, MsgLoadError) /\ UNCHANGED documents
              ELSE /\ documents' = found
                   /\ IF documents' = <<>>
                          THEN Exit(1, MsgNoDocs)
                          ELSE pc' = "indexer_init" /\ UNCHANGED <<exitCode, out>>
    /\ UNCHANGED <<environ, envFile, docsPath, reindexFlag, dirExists,
                   coll, indexer, vector_store, qa_retriever, nextHandle,
                   uncaught, effects, branch, lastInput, nReindex>>

\* app.py:88-90 with indexing.py:34-57: the constructor runs outside any try, so
\* what _get_embeddings raises leaves main unhandled and the interpreter reports it
MakeIndexer ==
    /\ pc = "indexer_init"
    /\ steps' = Append(steps, "indexer_init")
    /\ \E embeddingsFail \in BOOLEAN :
          IF NotSet(environ, OPENAI_API_KEY) \/ embeddingsFail
              THEN /\ Exit(1, MsgTraceback)
                   /\ uncaught' = TRUE
                   /\ UNCHANGED indexer
              ELSE /\ indexer' = [made |-> TRUE, vector_store |-> 0]
                   /\ pc' = "index"
                   /\ UNCHANGED <<exitCode, out, uncaught>>
    /\ UNCHANGED <<environ, envFile, docsPath, reindexFlag, dirExists,
                   coll, documents, vector_store, qa_retriever, nextHandle,
                   effects, branch, lastInput, nReindex>>

\* DocumentIndexer.index_documents(docs) returning normally (indexing.py:91-106):
\* the chunks are embedded and added, self.vector_store is the new handle
IndexDocumentsOk(docs) ==
    /\ docs # <<>>
    /\ coll' = IndexedCollection(coll, docs)
    /\ dirExists' = TRUE
    /\ indexer' = [indexer EXCEPT !.vector_store = nextHandle]
    /\ nextHandle' = nextHandle + 1
    /\ effects' = effects \cup {"embed", "chroma_add"}

\* DocumentIndexer.index_documents(docs) raising: on an empty list before any
\* call (indexing.py:91-92), otherwise out of Chroma.from_documents before a
\* chunk is stored; the store may already have created its directory
IndexDocumentsRaises(docs) ==
    /\ UNCHANGED <<coll, indexer, nextHandle>>
    /\ IF docs = <<>>
           THEN UNCHANGED <<dirExists, effects>>
           ELSE /\ dirExists' \in {dirExists, TRUE}
                /\ effects' = effects \cup {"embed"}

\* DocumentIndexer.load_existing_index() returning normally (indexing.py:118-128)
LoadExistingOk ==
    /\ dirExists
    /\ indexer' = [indexer EXCEPT !.vector_store = nextHandle]
    /\ nextHandle' = nextHandle + 1
    /\ effects' = effects \cup {"chroma_open"}
    /\ UNCHANGED <<coll, dirExists>>

\* DocumentIndexer.load_existing_index() raising
LoadExistingRaises ==
    /\ effects' = IF dirExists THEN effects \cup {"chroma_open"} ELSE effects
    /\ UNCHANGED <<coll, dirExists, indexer, nextHandle>>

\* app.py:92-102
IndexOrLoad ==
    /\ pc = "index"
    /\ steps' = Append(steps, "index_or_load")
    /\ IF UseExistingIndex(reindexFlag, dirExists)
           THEN /\ branch' = "load"
                /\ \/ /\ LoadExistingOk
                      /\ vector_store' = nextHandle
                      /\ pc' = "retriever_init"
                      /\ UNCHANGED <<exitCode, out>>
                   \/ /\ LoadExistingRaises
                      /\ Exit(1, MsgIndexError)
                      /\ UNCHANGED vector_store
           ELSE /\ branch' = "create"
                /\ \/ /\ IndexDocumentsOk(documents)
                      /\ vector_store' = nextHandle
                      /\ pc' = "retriever_init"
                      /\ UNCHANGED <<exitCode, out>>
                   \/ /\ IndexDocumentsRaises(documents)
                      /\ Exit(1, MsgIndexError)
                      /\ UNCHANGED vector_store
    /\ UNCHANGED <<environ, envFile, docsPath, reindexFlag, documents,
                   qa_retriever, uncaught, lastInput, nReindex>>

\* QARetriever(vs, k) (retrieval.py:15-33): the object built
QARetriever(vs, k) == [made |-> TRUE, vector_store |-> vs, k |-> k]

\* app.py:104-110
MakeRetriever ==
    /\ pc = "retriever_init"
    /\ \E llmFails \in BOOLEAN :
          IF NotSet(environ, OPENAI_API_KEY) \/ llmFails
              THEN /\ Exit(1, MsgQAError)
                   /\ steps' = Append(steps, "retriever_init")
                   /\ UNCHANGED qa_retriever
              ELSE /\ qa_retriever' = QARetriever(vector_store, K_DEFAULT)
                   /\ steps' = steps \o <<"retriever_init", "loop">>
                   /\ pc' = "loop"
                   /\ UNCHANGED <<exitCode, out>>
    /\ UNCHANGED <<environ, envFile, docsPath, reindexFlag, dirExists,
                   coll, documents, indexer, vector_store, nextHandle, uncaught,
                   effects, branch, lastInput, nReindex>>

-----------------------------------------------------------------------------
(* app.py main: the interactive loop, one action per kind of iteration *)

\* app.py:122
Question(line) == Strip(line)

IsQuit(line) == Question(line) # <<>> /\ Lower(Question(line)) = quit

IsReindex(line) ==
    Question(line) # <<>> /\ ~IsQuit(line) /\ Lower(Question(line)) = reindex

Typed(line) == [kind |-> "line", text |-> line]

\* app.py:124-125
LoopEmpty ==
    /\ pc = "loop"
    /\ \E line \in InputLines :
          /\ Question(line) = <<>>
          /\ lastInput' = Typed(line)
    /\ UNCHANGED <<pc, environ, envFile, docsPath, reindexFlag,
                   dirExists, coll, documents, indexer, vector_store, qa_retriever,
                   nextHandle, out, exitCode, uncaught, steps, effects, branch,
                   nReindex>>

\* what leaving the loop does: main returns and the process ends with status 0
LeaveLoop == Exit(0, MsgGoodbye)

\* app.py:128-130
LoopQuit ==
    /\ pc = "loop"
    /\ \E line \in InputLines :
          /\ IsQuit(line)
          /\ lastInput' = Typed(line)
    /\ LeaveLoop
    /\ UNCHANGED <<environ, envFile, docsPath, reindexFlag,
                   dirExists, coll, documents, indexer, vector_store, qa_retriever,
                   nextHandle, uncaught, steps, effects, branch, nReindex>>

\* app.py:170-172: KeyboardInterrupt while waiting at the prompt
LoopInterrupt ==
    /\ pc = "loop"
    /\ lastInput' = [kind |-> "KeyboardInterrupt", text |-> <<>>]
    /\ LeaveLoop
    /\ UNCHANGED <<environ, envFile, docsPath, reindexFlag,
                   dirExists, coll, documents, indexer, vector_store, qa_retriever,
                   nextHandle, uncaught, steps, effects, branch, nReindex>>

\* the loop without its `except Exception` clause: the exception leaves main
HandleLoopException_Propagates == Exit(1, MsgTraceback)

\* what the handler of app.py:173-175 does with an exception of the loop body
HandleLoopException == out' = MsgError /\ UNCHANGED <<pc, exitCode>>

\* app.py:173-175: input() itself raises (end of input)
LoopInputError ==
    /\ pc = "loop"
    /\ lastInput' = [kind |-> "EOFError", text |-> <<>>]
    /\ HandleLoopException
    /\ UNCHANGED <<environ, envFile, docsPath, reindexFlag,
                   dirExists, coll, documents, indexer, vector_store, qa_retriever,
                   nextHandle, uncaught, steps, effects, branch, nReindex>>

\* app.py:163-168 with 173-175: a question is answered, or answering raises
LoopQuestion ==
    /\ pc = "loop"
    /\ \E line \in InputLines :
          /\ Question(line) # <<>> /\ ~IsQuit(line) /\ ~IsReindex(line)
          /\ lastInput' = Typed(line)
    /\ effects' = effects \cup {"embed", "chat"}
    /\ \E raises \in BOOLEAN :
          IF raises
              THEN HandleLoopException
              ELSE out' = MsgAnswer /\ UNCHANGED <<pc, exitCode>>
    /\ UNCHANGED <<environ, envFile, docsPath, reindexFlag,
                   dirExists, coll, documents, indexer, vector_store, qa_retriever,
                   nextHandle, uncaught, steps, branch, nReindex>>

\* app.py:132-161
LoopReindex ==
    /\ pc = "loop"
    /\ nReindex < MaxReindex
    /\ nReindex' = nReindex + 1
    /\ \E line \in InputLines :
          /\ IsReindex(line)
          /\ lastInput' = Typed(line)
    /\ \/ \* load_folder raises
          /\ out' = MsgReindexError
          /\ UNCHANGED <<documents, coll, dirExists, indexer, nextHandle, effects,
                         vector_store, qa_retriever>>
       \/ \* load_folder returns what the folder holds now
          \E found \in FolderLoads :
             /\ documents' = found
             /\ IF found = <<>>
                    THEN \* warning and `continue`
                         /\ out' = MsgReindexWarn
                         /\ UNCHANGED <<coll, dirExists, indexer, nextHandle,
                                        effects, vector_store, qa_retriever>>
                    ELSE \/ \* index_documents raises
                            /\ IndexDocumentsRaises(found)
                            /\ out' = MsgReindexError
                            /\ UNCHANGED <<vector_store, qa_retriever>>
                         \/ \* index_documents returns; QARetriever(...) raises
                            \* or returns
                            /\ IndexDocumentsOk(found)
                            /\ vector_store' = nextHandle
                            /\ \E llmFails \in BOOLEAN :
                                  IF NotSet(environ, OPENAI_API_KEY) \/ llmFails
                                      THEN /\ out' = MsgReindexError
                                           /\ UNCHANGED qa_retriever
                                      ELSE /\ qa_retriever' =
                                                QARetriever(vector_store', K_DEFAULT)
                                           /\ out' = MsgReindexDone
    /\ UNCHANGED <<pc, environ, envFile, docsPath, reindexFlag,
                   exitCode, uncaught, steps, branch>>

MainNext ==
    \/ LoadEnv \/ CheckKey \/ CheckFolder \/ LoadDocs \/ MakeIndexer
    \/ IndexOrLoad \/ MakeRetriever
    \/ LoopEmpty \/ LoopQuit \/ LoopInterrupt \/ LoopInputError
    \/ LoopQuestion \/ LoopReindex

-----------------------------------------------------------------------------
(* src/loaders.py *)

TEXT_EXTENSIONS == {<<".","t","x","t">>}
PDF_EXTENSIONS == {<<".","p","d","f">>}
DOCX_EXTENSIONS == {<<".","d","o","c","x">>, <<".","d","o","c">>}
IMAGE_EXTENSIONS ==
    {<<".","j","p","g">>, <<".","j","p","e","g">>, <<".","p","n","g">>, <<".","g","i","f">>, <<".","b","m","p">>}
MARKDOWN_EXTENSIONS == {<<".","m","d">>, <<".","m","a","r","k","d","o","w","n">>}
CSV_EXTENSIONS == {<<".","c","s","v">>}

\* loaders.py:100-107
supported_extensions ==
    TEXT_EXTENSIONS \cup PDF_EXTENSIONS \cup DOCX_EXTENSIONS
    \cup IMAGE_EXTENSIONS \cup MARKDOWN_EXTENSIONS \cup CSV_EXTENSIONS

\* Path.name: the text after the last "/"
PathName(path) == DropFirst(path, LastIndex(path, "/"))

\* Path.suffix: the name from its last dot on, unless that dot starts or ends
\* the name
PathSuffix(path) ==
    LET name == PathName(path)
        dot == LastIndex(name, ".")
    IN IF dot > 1 /\ dot < Len(name) THEN DropFirst(name, dot - 1) ELSE <<>>

\* the branch of the if/elif chain of load_document an extension selects
LoaderFor(extension) ==
    CASE extension \in TEXT_EXTENSIONS -> "TextLoader"
      [] extension \in PDF_EXTENSIONS -> "PyPDFLoader"
      [] extension \in DOCX_EXTENSIONS -> "UnstructuredWordDocumentLoader"
      [] extension \in IMAGE_EXTENSIONS -> "UnstructuredImageLoader"
      [] extension \in MARKDOWN_EXTENSIONS -> "UnstructuredMarkdownLoader"
      [] extension \in CSV_EXTENSIONS -> "CSVLoader"
      [] OTHER -> "unsupported"

\* dict.update: the entries of `new` replace those of `old`
DictUpdate(old, new) == new @@ old

\* doc.metadata after loaders.py:74-76
TagMetadata(md, metadata, extension) ==
    DictUpdate(DictUpdate(md, metadata), [file_type |-> Tail(extension)])

\* the tagging with the update applied the other way round: what the parser
\* set is kept
TagDocs_ParserWins(docs, metadata, extension) ==
    [i \in 1..Len(docs) |->
        [docs[i] EXCEPT !.metadata =
            DictUpdate(DictUpdate(metadata, @), [file_type |-> Tail(extension)])]]

\* loaders.py:73-76: every document of the list is tagged
TagDocs(docs, metadata, extension) ==
    [i \in 1..Len(docs) |->
        [docs[i] EXCEPT !.metadata = TagMetadata(@, metadata, extension)]]

\* load_document with no handler around the parser call
load_document_NoCatch(path, parsed) ==
    LET extension == Lower(PathSuffix(path))
        metadata == [source |-> path, file_name |-> PathName(path)]
    IN IF LoaderFor(extension) = "unsupported"
           THEN [raised |-> FALSE, docs |-> <<>>]
           ELSE IF parsed.raised
               THEN [raised |-> TRUE, docs |-> <<>>]
               ELSE [raised |-> FALSE,
                     docs |-> TagDocs(parsed.docs, metadata, extension)]

\* DocumentLoader.load_document(path), `parsed` being what the selected parser
\* does on the file: whether the call raised, and what it returned
load_document(path, parsed) ==
    LET extension == Lower(PathSuffix(path))
        metadata == [source |-> path, file_name |-> PathName(path)]
    IN IF LoaderFor(extension) = "unsupported"
           THEN [raised |-> FALSE, docs |-> <<>>]
           ELSE IF parsed.raised
               THEN [raised |-> FALSE, docs |-> <<>>]
               ELSE [raised |-> FALSE,
                     docs |-> TagDocs(parsed.docs, metadata, extension)]

\* the folder of a traversal
Folder == <<"d">>

\* what rglob("*") may yield, by path below the folder
Entries == {
    [name |-> <<"a",".","t","x","t">>, is_file |-> TRUE],
    [name |-> <<"s","/","B",".","P","D","F">>, is_file |-> TRUE],
    [name |-> <<"c",".","e","x","e">>, is_file |-> TRUE],
    [name |-> <<".","c","s","v">>, is_file |-> TRUE],
    [name |-> <<"s",".","m","d">>, is_file |-> FALSE] }

EntryPath(e) == Folder \o <<"/">> \o e.name

\* metadata a parser may set on the documents of `path`: the path it was
\* given, or a source of its own with a further field
ParserMetadata(path) ==
    {[source |-> path], [source |-> <<"?">>, page |-> <<"0">>]}

\* what a parser may do on `path`: raise, or return up to MaxParsed documents
\* (the text of document j of a file is the file's path, "#" and j)
ParserOutcomes(path) ==
    {[raised |-> TRUE, docs |-> <<>>]}
    \cup {[raised |-> FALSE,
           docs |-> [j \in 1..n |->
                       [page_content |-> path \o <<"#">> \o Str(j),
                        metadata |-> md]]] :
             n \in 0..MaxParsed, md \in ParserMetadata(path)}

\* the traversals of a folder: every path at most once
Listings ==
    {l \in SeqsUpTo(Entries, MaxFiles) :
        \A i, j \in 1..Len(l) : i # j => l[i] # l[j]}

NotCalled == [raised |-> FALSE, docs |-> <<>>, called |-> FALSE]

Called(parsed) == [raised |-> parsed.raised, docs |-> parsed.docs, called |-> TRUE]

LoaderInit ==
    /\ ld_pc = "idle"
    /\ ld_exists \in BOOLEAN
    /\ ld_listing \in IF ld_exists THEN Listings ELSE {<<>>}
    /\ ld_i = 0
    /\ all_documents = <<>>
    /\ ld_parsed = <<>>
    /\ ld_raised = FALSE
    /\ ld_path = <<>>
    /\ ld_result = <<>>

\* loaders.py:94-99: load_folder is called
LoadFolderCall ==
    /\ ld_pc = "idle"
    /\ IF ~ld_exists
           THEN ld_raised' = TRUE /\ ld_pc' = "raised" /\ UNCHANGED ld_i
           ELSE ld_raised' = FALSE /\ ld_pc' = "walk" /\ ld_i' = 1
    /\ all_documents' = <<>>
    /\ UNCHANGED <<ld_listing, ld_exists, ld_parsed, ld_path, ld_result>>

\* loaders.py:110-114: one iteration of the traversal
LoadFolderVisit ==
    /\ ld_pc = "walk"
    /\ ld_i <= Len(ld_listing)
    /\ LET file_path == EntryPath(ld_listing[ld_i])
       IN IF ld_listing[ld_i].is_file
               /\ Lower(PathSuffix(file_path)) \in supported_extensions
              THEN \E parsed \in ParserOutcomes(file_path) :
                      LET r == load_document(file_path, parsed)
                      IN /\ ld_parsed' = Append(ld_parsed, Called(parsed))
                         /\ IF r.raised
                                THEN /\ ld_raised' = TRUE
                                     /\ ld_pc' = "raised"
                                     /\ UNCHANGED <<all_documents, ld_i>>
                                ELSE /\ all_documents' = all_documents \o r.docs
                                     /\ ld_i' = ld_i + 1
                                     /\ UNCHANGED <<ld_raised, ld_pc>>
              ELSE /\ ld_parsed' = Append(ld_parsed, NotCalled)
                   /\ ld_i' = ld_i + 1
                   /\ UNCHANGED <<all_documents, ld_raised, ld_pc>>
    /\ UNCHANGED <<ld_listing, ld_exists, ld_path, ld_result>>

\* loaders.py:116-117
LoadFolderReturn ==
    /\ ld_pc = "walk"
    /\ ld_i > Len(ld_listing)
    /\ ld_pc' = "returned"
    /\ UNCHANGED <<ld_listing, ld_exists, ld_i, all_documents, ld_parsed,
                   ld_raised, ld_path, ld_result>>

\* load_document is called on one file of the listing
LoadDocumentCall ==
    /\ ld_pc = "idle"
    /\ \E e \in Range(ld_listing) :
          \E parsed \in ParserOutcomes(EntryPath(e)) :
             LET r == load_document(EntryPath(e), parsed)
             IN /\ ld_path' = EntryPath(e)
                /\ ld_parsed' = <<Called(parsed)>>
                /\ ld_raised' = r.raised
                /\ ld_result' = r.docs
                /\ ld_pc' = IF r.raised THEN "raised" ELSE "doc_returned"
    /\ UNCHANGED <<ld_listing, ld_exists, ld_i, all_documents>>

-----------------------------------------------------------------------------
(* src/retrieval.py *)

Unknown == <<"U","n","k","n","o","w","n">>

\* doc.metadata.get("source", "Unknown")
SourceOf(doc) ==
    IF "source" \in DOMAIN doc.metadata THEN doc.metadata.source ELSE Unknown

\* the orders in which list(set(...)) may enumerate a set
Orderings(S) ==
    {l \in SeqsUpTo(S, Cardinality(S)) : Len(l) = Cardinality(S) /\ Range(l) = S}

\* the list comprehension of retrieval.py:94 without the set() around it
SourceLists_NoSet(source_docs) ==
    {[i \in 1..Len(source_docs) |-> SourceOf(source_docs[i])]}

\* retrieval.py:93-95: the lists `sources` may be bound to
SourceLists(source_docs) ==
    Orderings({SourceOf(source_docs[i]) : i \in 1..Len(source_docs)})

\* result.get("context", [])
GetContext(result) == IF result.has_context THEN result.context ELSE <<>>

MAX_CHUNK_CHARS == 300
MAX_SHOWN_CHUNKS == 3
RULE_WIDTH == 60

Ellipsis == <<".", ".", ".">>

\* the truncation with the comparison off by one
Truncate_FromLimit(content) ==
    IF Len(content) >= MAX_CHUNK_CHARS
        THEN SubSeq(content, 1, MAX_CHUNK_CHARS) \o Ellipsis
        ELSE content

\* retrieval.py:143-145
Truncate(content) ==
    IF Len(content) > MAX_CHUNK_CHARS
        THEN SubSeq(content, 1, MAX_CHUNK_CHARS) \o Ellipsis
        ELSE content

Rule(c) == Rep(c, RULE_WIDTH)

AnswerHeader == <<"A","N","S","W","E","R",":">>
SourcesHeader == <<"S","O","U","R","C","E","S",":">>
ContextHeader == <<"R","E","T","R","I","E","V","E","D"," ","C","O","N","T","E","X","T",":">>

\* retrieval.py:137-146: the three lines of chunk i
ChunkLines(i, doc) ==
    << <<"\n">> \o <<"[","C","h","u","n","k"," ">> \o Str(i) \o <<" ","f","r","o","m"," ">> \o SourceOf(doc) \o <<"]">>,
       Rule("-"),
       Truncate(doc.page_content) >>

\* the `output` list format_response builds (retrieval.py:114-146)
FormatLines(result, show_context) ==
    LET shown == TakeFirst(result.context, MAX_SHOWN_CHUNKS)
    IN << Rule("="), AnswerHeader, Rule("="), result.answer, <<>> >>
       \o (IF result.sources # <<>>
              THEN << Rule("="), SourcesHeader, Rule("=") >>
                   \o [i \in 1..Len(result.sources) |->
                          Str(i) \o <<".", " ">> \o result.sources[i]]
                   \o << <<>> >>
              ELSE <<>>)
       \o (IF show_context /\ result.context # <<>>
              THEN << Rule("="), ContextHeader, Rule("=") >>
                   \o Concat([i \in 1..Len(shown) |-> ChunkLines(i, shown[i])])
              ELSE <<>>)

\* QARetriever.format_response
format_response(result, show_context) == JoinLines(FormatLines(result, show_context))

\* the text of a chunk of n characters
Text(n) == [i \in 1..n |-> Str(i % 10)[1]]

\* the chunks a retrieval may return
Chunks == {
    [page_content |-> Text(MAX_CHUNK_CHARS), metadata |-> [source |-> <<"a">>]],
    [page_content |-> Text(MAX_CHUNK_CHARS + 1), metadata |-> [source |-> <<"a">>]],
    [page_content |-> Text(MAX_CHUNK_CHARS + 5), metadata |-> [source |-> <<"b">>]],
    [page_content |-> <<>>, metadata |-> [source |-> <<"b">>]],
    [page_content |-> Text(2), metadata |-> [page |-> <<"0">>]] }

\* what qa_chain.invoke may return
ChainResults ==
    {[has_context |-> FALSE, context |-> <<>>, answer |-> <<"o", "k">>]}
    \cup {[has_context |-> TRUE, context |-> c, answer |-> <<"o", "k">>] :
             c \in SeqsUpTo(Chunks, MaxK)}

QAInit ==
    /\ qa_pc = "idle"
    /\ qa_chain_result \in ChainResults
    /\ qa_result = [answer |-> <<>>, sources |-> <<>>, context |-> <<>>]
    /\ fr_show = FALSE
    /\ fr_lines = <<>>
    /\ fr_output = <<>>

\* QARetriever.answer_question (retrieval.py:78-101): the chain raises, or its
\* result is turned into the answer dictionary
AnswerQuestion ==
    /\ qa_pc = "idle"
    /\ \/ /\ qa_pc' = "raised"
          /\ UNCHANGED qa_result
       \/ /\ \E sources \in SourceLists(GetContext(qa_chain_result)) :
                qa_result' = [answer |-> qa_chain_result.answer,
                              sources |-> sources,
                              context |-> GetContext(qa_chain_result)]
          /\ qa_pc' = "answered"
    /\ UNCHANGED <<qa_chain_result, fr_show, fr_lines, fr_output>>

\* QARetriever.format_response(result, show_context) (retrieval.py:103-148)
FormatResponse ==
    /\ qa_pc = "answered"
    /\ \E show_context \in BOOLEAN :
          /\ fr_show' = show_context
          /\ fr_lines' = FormatLines(qa_result, show_context)
          /\ fr_output' = format_response(qa_result, show_context)
    /\ qa_pc' = "formatted"
    /\ UNCHANGED <<qa_chain_result, qa_result>>

-----------------------------------------------------------------------------
(* Specifications *)

LoaderIdle ==
    /\ ld_pc = "idle"
    /\ ld_listing = <<>>
    /\ ld_exists = FALSE
    /\ ld_i = 0
    /\ all_documents = <<>>
    /\ ld_parsed = <<>>
    /\ ld_raised = FALSE
    /\ ld_path = <<>>
    /\ ld_result = <<>>

QAIdle ==
    /\ qa_pc = "idle"
    /\ qa_chain_result = [has_context |-> FALSE, context |-> <<>>, answer |-> <<>>]
    /\ qa_result = [answer |-> <<>>, sources |-> <<>>, context |-> <<>>]
    /\ fr_show = FALSE
    /\ fr_lines = <<>>
    /\ fr_output = <<>>

MainIdle ==
    /\ pc = "off"
    /\ environ = <<>>
    /\ envFile = [exists |-> FALSE, lines |-> <<>>]
    /\ docsPath = "missing"
    /\ reindexFlag = FALSE
    /\ dirExists = FALSE
    /\ coll = EmptyBag
    /\ documents = <<>>
    /\ indexer = [made |-> FALSE, vector_store |-> 0]
    /\ vector_store = 0
    /\ qa_retriever = [made |-> FALSE, vector_store |-> 0, k |-> 0]
    /\ nextHandle = 1
    /\ out = ""
    /\ exitCode = -1
    /\ uncaught = FALSE
    /\ steps = <<>>
    /\ effects = {}
    /\ branch = "none"
    /\ lastInput = [kind |-> "none", text |-> <<>>]
    /\ nReindex = 0

Init == MainInit /\ LoaderIdle /\ QAIdle

Next ==
    \/ LoadEnv /\ UNCHANGED <<loaderVars, qaVars>>
    \/ CheckKey /\ UNCHANGED <<loaderVars, qaVars>>
    \/ CheckFolder /\ UNCHANGED <<loaderVars, qaVars>>
    \/ LoadDocs /\ UNCHANGED <<loaderVars, qaVars>>
    \/ MakeIndexer /\ UNCHANGED <<loaderVars, qaVars>>
    \/ IndexOrLoad /\ UNCHANGED <<loaderVars, qaVars>>
    \/ MakeRetriever /\ UNCHANGED <<loaderVars, qaVars>>
    \/ LoopEmpty /\ UNCHANGED <<loaderVars, qaVars>>
    \/ LoopQuit /\ UNCHANGED <<loaderVars, qaVars>>
    \/ LoopInterrupt /\ UNCHANGED <<loaderVars, qaVars>>
    \/ LoopInputError /\ UNCHANGED <<loaderVars, qaVars>>
    \/ LoopQuestion /\ UNCHANGED <<loaderVars, qaVars>>
    \/ LoopReindex /\ UNCHANGED <<loaderVars, qaVars>>

Spec == Init /\ [][Next]_vars

LoaderNext ==
    \/ LoadFolderCall /\ UNCHANGED <<mainVars, qaVars>>
    \/ LoadFolderVisit /\ UNCHANGED <<mainVars, qaVars>>
    \/ LoadFolderReturn /\ UNCHANGED <<mainVars, qaVars>>
    \/ LoadDocumentCall /\ UNCHANGED <<mainVars, qaVars>>

\* DocumentLoader on its own: a folder listing is drawn, then traversed
QANext ==
    \/ AnswerQuestion /\ UNCHANGED <<mainVars, loaderVars>>
    \/ FormatResponse /\ UNCHANGED <<mainVars, loaderVars>>

InitQA == MainIdle /\ LoaderIdle /\ QAInit

\* QARetriever on its own: a chain result is drawn, answered and formatted
SpecQA == InitQA /\ [][QANext]_vars

\* a run of main up to its key check, over the wider set of .env files
EnvInit ==
    /\ pc = "start"
    /\ environ \in EnvStartEnvs
    /\ envFile \in EnvFilesUpTo
    /\ docsPath = "dir"
    /\ reindexFlag = FALSE
    /\ dirExists = FALSE
    /\ coll = EmptyBag
    /\ documents = <<>>
    /\ indexer = [made |-> FALSE, vector_store |-> 0]
    /\ vector_store = 0
    /\ qa_retriever = [made |-> FALSE, vector_store |-> 0, k |-> 0]
    /\ nextHandle = 1
    /\ out = ""
    /\ exitCode = -1
    /\ uncaught = FALSE
    /\ steps = <<>>
    /\ effects = {}
    /\ branch = "none"
    /\ lastInput = [kind |-> "none", text |-> <<>>]
    /\ nReindex = 0

InitEnv == EnvInit /\ LoaderIdle /\ QAIdle

EnvNext ==
    \/ LoadEnv /\ UNCHANGED <<loaderVars, qaVars>>
    \/ CheckKey /\ UNCHANGED <<loaderVars, qaVars>>

\* load_env_file and the key check of main (app.py:55-63)
SpecEnv == InitEnv /\ [][EnvNext]_vars

InitLoader == MainIdle /\ LoaderInit /\ QAIdle

SpecLoader == InitLoader /\ [][LoaderNext]_vars

-----------------------------------------------------------------------------
(* Properties of main *)

SetupOrder == <<"env_load", "key_check", "folder_check", "load_folder",
                "indexer_init", "index_or_load", "retriever_init", "loop">>

IsPrefix(s, t) == Len(s) <= Len(t) /\ s = SubSeq(t, 1, Len(s))

EnteredLoop == "loop" \in Range(steps)

LoadedChunks == SeqToBag(chunk_documents(documents))

\* a re-index (startup index creation, or the runtime command) has just succeeded
ReindexSucceeded ==
    \/ pc = "retriever_init" /\ branch = "create"
    \/ pc = "loop" /\ out = MsgReindexDone

\* C1: after a successful re-index the collection holds exactly the chunks of
\* the most recent folder load: nothing of an earlier load, nothing twice.
C1_ReindexReplaces == ReindexSucceeded => coll = LoadedChunks

\* C2: an iteration of the loop that ends in a caught error (a failed question,
\* a failed reindex) stays in the loop and leaves the vector store handle, the
\* retriever and the persisted collection as they were.
C2_FailedCommandKeepsState ==
    [][(pc = "loop" /\ lastInput'.kind = "line"
            /\ out' \in {MsgReindexError, MsgError})
        => (/\ pc' = "loop"
            /\ vector_store' = vector_store
            /\ qa_retriever' = qa_retriever
            /\ coll' = coll)]_vars

SetupErrorMessages ==
    {MsgNoKey, MsgNoFolder, MsgNoDocs, MsgLoadError, MsgIndexError, MsgQAError}

\* C3: a run that ends during setup ended because main caught the failure,
\* printed its message and exited with code 1; exit code 0 only after the loop.
C3_SetupFailuresCaught ==
    /\ (pc = "exited" /\ ~EnteredLoop)
           => (~uncaught /\ exitCode = 1 /\ out \in SetupErrorMessages)
    /\ (pc = "exited" /\ exitCode = 0) => EnteredLoop

\* C4: the setup steps run only in the fixed order, each after the previous one
\* succeeded; with the key missing after load_env_file nothing runs beyond the
\* key check (no folder check, load, indexer, embedding, index open, retriever
\* or chat call) and the exit code is 1.
C4_KeyCheckFirst ==
    /\ IsPrefix(steps, SetupOrder)
    /\ (effects # {}) => "index_or_load" \in Range(steps)
    /\ ("chat" \in effects) => EnteredLoop
    /\ (indexer.made => "indexer_init" \in Range(steps))
    /\ (qa_retriever.made => "retriever_init" \in Range(steps))
    /\ (documents # <<>> => "load_folder" \in Range(steps))
    /\ (steps # <<>> /\ NotSet(environ, OPENAI_API_KEY))
           => /\ IsPrefix(steps, <<"env_load", "key_check">>)
              /\ pc \in {"key_check", "exited"}
              /\ (pc = "exited" <=> Len(steps) = 2)
              /\ (pc = "exited" => exitCode = 1 /\ out = MsgNoKey)
              /\ effects = {} /\ documents = <<>>
              /\ ~indexer.made /\ ~qa_retriever.made /\ vector_store = 0

\* C4 witness: a run where the .env file blanked a key the process had, and
\* main exited at the key check
C4_Witness ==
    /\ pc = "exited" /\ exitCode = 1
    /\ steps = <<"env_load", "key_check">>
    /\ NotSet(environ, OPENAI_API_KEY) /\ envFile.exists

\* C5: the startup branch is decided by the directory and the flag: directory
\* present and no --reindex opens the existing collection and adds nothing to
\* it; otherwise index_documents runs on the loaded documents. One branch runs,
\* once.
C5_LoadOrCreate ==
    /\ [][(pc = "index" /\ pc' # "index")
           => IF dirExists /\ ~reindexFlag
                  THEN /\ branch' = "load"
                       /\ coll' = coll
                       /\ effects' \subseteq {"chroma_open"}
                  ELSE /\ branch' = "create"
                       /\ "chroma_open" \notin effects'
                       /\ "embed" \in effects'
                       /\ (pc' = "retriever_init"
                              => coll' = coll (+) LoadedChunks)]_vars
    /\ [][(pc # "index") => (branch' = branch)]_vars
    /\ [][(pc = "start") => (branch = "none")]_vars

\* C5 witness: the loop was reached through the load branch, the existing
\* collection untouched although documents were loaded
C5_Witness ==
    /\ pc = "loop" /\ branch = "load" /\ nReindex = 0
    /\ documents # <<>> /\ coll = IndexedCollection(EmptyBag, <<1>>)
    /\ coll # LoadedChunks

LeavesOnInput(inp) ==
    \/ inp.kind = "KeyboardInterrupt"
    \/ inp.kind = "line" /\ Lower(Strip(inp.text)) = quit

\* C6: an iteration leaves the loop exactly when its input is the quit command
\* or an interrupt; every other line and every other exception returns to the
\* prompt with the process still running.
C6_OnlyQuitOrInterrupt ==
    [][(pc = "loop")
        => /\ (pc' # "loop") <=> LeavesOnInput(lastInput')
           /\ (pc' # "loop") => (pc' = "exited" /\ exitCode' = 0)
           /\ (pc' = "loop") => (exitCode' = -1)]_vars

\* C6 witness: still at the prompt after a reindex and an exception from input()
C6_Witness ==
    pc = "loop" /\ lastInput.kind = "EOFError" /\ out = MsgError /\ nReindex > 0

-----------------------------------------------------------------------------
(* Properties of DocumentLoader *)

\* the extensions the loader documents as supported, lower-cased, without dot
SupportedTypes == {
    <<"t","x","t">>,
    <<"p","d","f">>,
    <<"d","o","c","x">>,
    <<"d","o","c">>,
    <<"j","p","g">>,
    <<"j","p","e","g">>,
    <<"p","n","g">>,
    <<"g","i","f">>,
    <<"b","m","p">>,
    <<"m","d">>,
    <<"m","a","r","k","d","o","w","n">>,
    <<"c","s","v">> }

\* the text after the last dot of a file name, lower-cased ("" without one, or
\* when the only dot starts the name)
TypeOfName(name) ==
    IF LastIndex(name, ".") > 1
        THEN Lower(DropFirst(name, LastIndex(name, ".")))
        ELSE <<>>

\* entry i of the listing is a supported file whose parser returned
ParsedOk(i) ==
    /\ ld_listing[i].is_file
    /\ TypeOfName(PathName(ld_listing[i].name)) \in SupportedTypes
    /\ ld_parsed[i].called /\ ~ld_parsed[i].raised

Contents(docs) == [k \in 1..Len(docs) |-> docs[k].page_content]

\* the file a document's text was read from
OriginPath(doc) ==
    TakeFirst(doc.page_content, FirstIndex(doc.page_content, "#") - 1)

\* C8: load_folder on an existing folder does not raise; unsupported files and
\* files whose parser raised contribute nothing; the list returned is the
\* concatenation, in traversal order, of what the parsers of the supported
\* files returned, each chunk attributable to such a file.
C8_FolderLoadSkipsBadFiles ==
    /\ ld_raised => (~ld_exists /\ ld_pc = "raised")
    /\ ld_pc = "returned" =>
          /\ Len(ld_parsed) = Len(ld_listing)
          /\ Contents(all_documents) =
                 Concat([i \in 1..Len(ld_listing) |->
                            IF ParsedOk(i) THEN Contents(ld_parsed[i].docs)
                                           ELSE <<>>])
          /\ \A k \in 1..Len(all_documents) :
                \E i \in 1..Len(ld_listing) :
                   /\ ParsedOk(i)
                   /\ all_documents[k].metadata.source = EntryPath(ld_listing[i])
          /\ \A i \in 1..Len(ld_listing) :
                ~ParsedOk(i) =>
                    \A k \in 1..Len(all_documents) :
                       /\ OriginPath(all_documents[k]) # EntryPath(ld_listing[i])
                       /\ all_documents[k].metadata.source
                              # EntryPath(ld_listing[i])

\* C8 witness: a traversal that met an unsupported file, then a file whose
\* parser raised, then a file that parsed, and returned the chunks of the last
C8_Witness ==
    /\ ld_pc = "returned" /\ Len(ld_listing) = 3
    /\ ld_listing[1].is_file /\ ~ld_parsed[1].called
    /\ ld_parsed[2].called /\ ld_parsed[2].raised
    /\ ParsedOk(3) /\ Len(ld_parsed[3].docs) = 2
    /\ Len(all_documents) = 2

TaggedFor(doc, path) ==
    /\ {"source", "file_name", "file_type"} \subseteq DOMAIN doc.metadata
    /\ doc.metadata.source = path
    /\ doc.metadata.file_name = PathName(path)
    /\ doc.metadata.file_type = TypeOfName(PathName(path))
    /\ doc.metadata.file_type \in SupportedTypes

\* C9: every chunk load_document or load_folder returns has `source` equal to
\* the path of its file (whatever the parser had set), `file_name` the file's
\* name and `file_type` the lower-cased extension without the dot.
C9_ChunksCarrySource ==
    /\ \A k \in 1..Len(all_documents) :
          TaggedFor(all_documents[k], OriginPath(all_documents[k]))
    /\ \A k \in 1..Len(ld_result) :
          /\ TaggedFor(ld_result[k], ld_path)
          /\ OriginPath(ld_result[k]) = ld_path

\* C9 witness: a folder load returned chunks of an upper-case .PDF file whose
\* parser had set a source of its own
C9_Witness ==
    /\ ld_pc = "returned"
    /\ \E i \in 1..Len(ld_listing) :
          /\ ParsedOk(i)
          /\ ld_listing[i].name = <<"s","/","B",".","P","D","F">>
          /\ ld_parsed[i].docs # <<>>
          /\ ld_parsed[i].docs[1].metadata.source # EntryPath(ld_listing[i])
          /\ \E k \in 1..Len(all_documents) :
                /\ all_documents[k].metadata.source = EntryPath(ld_listing[i])
                /\ all_documents[k].metadata.file_type = <<"p","d","f">>
                /\ "page" \in DOMAIN all_documents[k].metadata

-----------------------------------------------------------------------------
(* Properties of QARetriever *)

Min(a, b) == IF a <= b THEN a ELSE b

\* the lines of the output that open a chunk: "\n[Chunk ..."
ChunkOpeners ==
    {h \in 1..Len(fr_lines) : StartsWith(fr_lines[h], <<"\n">> \o <<"[","C","h","u","n","k"," ">>)}

ContextHeaders == {h \in 1..Len(fr_lines) : fr_lines[h] = ContextHeader}

\* how chunk text c must be displayed
ShownAs(c, d) ==
    IF Len(c) > 300
        THEN /\ Len(d) = 303
             /\ \A i \in 1..300 : d[i] = c[i]
             /\ \A i \in 301..303 : d[i] = "."
        ELSE d = c

\* C7: format_response shows at most the first 3 chunks of the context, in
\* retrieval order; a chunk longer than 300 characters as its first 300
\* characters and "...", a shorter one unchanged; nothing of the context when
\* show_context is false or the context is empty.
C7_FormatTruncates ==
    qa_pc = "formatted" =>
        LET ctx == qa_result.context
            n == Min(3, Len(ctx))
        IN IF ~fr_show \/ ctx = <<>>
               THEN ChunkOpeners = {} /\ ContextHeaders = {}
               ELSE /\ Cardinality(ContextHeaders) = 1
                    /\ Cardinality(ChunkOpeners) = n
                    /\ LET h == CHOOSE x \in ContextHeaders : TRUE
                       IN /\ Len(fr_lines) = h + 1 + 3 * n
                          /\ \A i \in 1..n :
                                /\ (h + 3 * i - 1) \in ChunkOpeners
                                /\ ShownAs(ctx[i].page_content,
                                           fr_lines[h + 3 * i + 1])

\* C7 witness: four chunks retrieved, the first over the limit, the second at
\* the limit, shown with their context
C7_Witness ==
    /\ qa_pc = "formatted" /\ fr_show
    /\ Len(qa_result.context) = 4
    /\ Len(qa_result.context[1].page_content) = 301
    /\ Len(qa_result.context[2].page_content) = 300
    /\ Len(qa_result.context[3].page_content) = 0
    /\ Len(fr_output) > 600

Occurrences(l, x) == Cardinality({j \in 1..Len(l) : l[j] = x})

\* C10: `sources` holds the source of every retrieved chunk exactly once
\* ("Unknown" for a chunk without one) and nothing else; `context` is the
\* retrieved sequence itself.
C10_SourcesDeduplicated ==
    qa_pc \in {"answered", "formatted"} =>
        LET retrieved == IF qa_chain_result.has_context
                             THEN qa_chain_result.context ELSE <<>>
            SourceAt(i) ==
                IF "source" \in DOMAIN retrieved[i].metadata
                    THEN retrieved[i].metadata.source
                    ELSE <<"U","n","k","n","o","w","n">>
        IN /\ \A i \in 1..Len(retrieved) :
                 Occurrences(qa_result.sources, SourceAt(i)) = 1
           /\ \A j \in 1..Len(qa_result.sources) :
                 \E i \in 1..Len(retrieved) : qa_result.sources[j] = SourceAt(i)
           /\ qa_result.context = retrieved

\* C10 witness: four chunks of three sources, one of them without source
\* metadata, answered with three sources
C10_Witness ==
    /\ qa_pc = "answered"
    /\ Len(qa_result.context) = 4
    /\ Len(qa_result.sources) = 3
    /\ qa_result.sources[1] = Unknown
    /\ qa_result.context[1].metadata.source = <<"a">>
    /\ qa_result.context[2].metadata.source = <<"a">>

-----------------------------------------------------------------------------
(* Properties of load_env_file *)

\* a line that is neither blank nor a comment and holds "="
Assigns(raw) ==
    /\ Strip(raw) # <<>>
    /\ Strip(raw)[1] # "#"
    /\ \E p \in 1..Len(raw) : raw[p] = "="

\* position of the first "=" of a line
FirstEq(l) == CHOOSE p \in 1..Len(l) : l[p] = "=" /\ \A q \in 1..(p - 1) : l[q] # "="

\* the text before the first "=", trimmed
KeyOf(raw) == LET l == Strip(raw) IN Strip(SubSeq(l, 1, FirstEq(l) - 1))

\* the text after the first "=", trimmed
ValueOf(raw) == LET l == Strip(raw) IN Strip(SubSeq(l, FirstEq(l) + 1, Len(l)))

MaxOf(S) == CHOOSE x \in S : \A y \in S : y <= x
MinOf(S) == CHOOSE x \in S : \A y \in S : x <= y

\* the assigning lines among the first n that name key k
NamedBy(lines, n, k) == {i \in 1..n : Assigns(lines[i]) /\ KeyOf(lines[i]) = k}

\* `after` is `before` overwritten by the first n lines: a key a line names has
\* the value of the last line naming it, every other key is as it was
Overwritten(before, after, lines, n) ==
    /\ DOMAIN after =
           (DOMAIN before) \cup {KeyOf(lines[i]) : i \in {j \in 1..n : Assigns(lines[j])}}
    /\ \A k \in DOMAIN after :
          IF NamedBy(lines, n, k) # {}
              THEN after[k] = ValueOf(lines[MaxOf(NamedBy(lines, n, k))])
              ELSE after[k] = before[k]

\* the last line of the file naming OPENAI_API_KEY gives it the empty value
KeyBlankedByFile ==
    /\ envFile.exists
    /\ NamedBy(envFile.lines, Len(envFile.lines), OPENAI_API_KEY) # {}
    /\ ValueOf(envFile.lines[MaxOf(NamedBy(envFile.lines, Len(envFile.lines),
                                                OPENAI_API_KEY))]) = <<>>

\* C11 as stated: load_env_file returns, having overwritten the environment
\* with every assigning line of the file (last line for a key winning, other
\* keys and the environment of a run without file unchanged); a file whose
\* last OPENAI_API_KEY line is empty makes main exit with code 1.
C11_EnvFileOverwrites ==
    /\ [][(pc = "start")
           => /\ pc' = "key_check"
              /\ IF envFile.exists
                     THEN Overwritten(environ, environ', envFile.lines,
                                      Len(envFile.lines))
                     ELSE environ' = environ]_vars
    /\ [][(pc = "key_check" /\ KeyBlankedByFile)
           => (pc' = "exited" /\ exitCode' = 1)]_vars

\* the assigning lines whose name or value os.environ refuses
Refused(lines) ==
    {i \in 1..Len(lines) :
        /\ Assigns(lines[i])
        /\ \/ Len(KeyOf(lines[i])) = 0
           \/ NUL \in Range(KeyOf(lines[i]))
           \/ NUL \in Range(ValueOf(lines[i]))}

\* What load_env_file does in full: C11's overwrite for files whose assigning
\* lines all have a non-empty key and no NUL; at the first line that has not,
\* load_env_file raises, the
\* lines before it applied and none after it, and main ends unhandled with
\* status 1 before its key check.
C11_EnvFileOverwritesAccepted ==
    /\ [][(pc = "start")
           => LET lines == envFile.lines
                  n == IF Refused(lines) = {} THEN Len(lines)
                                             ELSE MinOf(Refused(lines)) - 1
              IN /\ IF envFile.exists
                        THEN Overwritten(environ, environ', lines, n)
                        ELSE environ' = environ
                 /\ IF envFile.exists /\ Refused(lines) # {}
                        THEN pc' = "exited" /\ uncaught' /\ exitCode' = 1
                        ELSE pc' = "key_check" /\ ~uncaught' /\ exitCode' = -1]_vars
    /\ [][(pc = "key_check" /\ KeyBlankedByFile)
           => (pc' = "exited" /\ exitCode' = 1 /\ out' = MsgNoKey)]_vars

\* the overwrite at work: the file sets the key and then blanks it; main has exited at
\* the key check, a key the file does not name still as the process had it
C11_KeyBlanked ==
    /\ pc = "exited" /\ exitCode = 1 /\ ~uncaught
    /\ envFile.exists /\ Len(envFile.lines) = 2
    /\ Assigns(envFile.lines[1]) /\ Assigns(envFile.lines[2])
    /\ KeyOf(envFile.lines[1]) = OPENAI_API_KEY /\ ValueOf(envFile.lines[1]) # <<>>
    /\ KeyOf(envFile.lines[2]) = OPENAI_API_KEY /\ ValueOf(envFile.lines[2]) = <<>>
    /\ DOMAIN environ = {OPENAI_API_KEY, <<"A">>}
    /\ environ[OPENAI_API_KEY] = <<>> /\ environ[<<"A">>] = <<"o">>

=============================================================================
